---- MODULE Spec2Model ----
(***************************************************************************)
(* A model of the agricultural data pipeline:                              *)
(*   scripts/data_ingestion.py         query_data, read_from_web_CSV        *)
(*   scripts/weather_data_processor.py WeatherDataProcessor                 *)
(*   scripts/field_data_processor.py   FieldDataProcessor                   *)
(*                                                                         *)
(* Tables (pandas DataFrames) are records [columns, rows]: columns is the   *)
(* sequence of column labels, rows the sequence of rows, each row the       *)
(* sequence of its cells in column position.  The row index is always the   *)
(* RangeIndex 0..n-1 that read_sql_query / read_csv produce, so a row's     *)
(* index label is its position.                                             *)
(*                                                                         *)
(* Text that the code inspects character by character (messages, crop       *)
(* names) is a sequence of one-character strings; labels that the code      *)
(* only compares (column names, station ids, category keys) are strings.    *)
(***************************************************************************)
EXTENDS Integers, Sequences, FiniteSets, TLC

VARIABLES
    patterns,             \* WeatherDataProcessor.patterns (ordered mapping)
    weather_station_data, \* what WeatherDataProcessor.weather_station_data points at
    weather_df,           \* WeatherDataProcessor.weather_df
    database,             \* what FieldDataProcessor.db_path and sql_query yield
    columns_to_rename,    \* FieldDataProcessor.columns_to_rename
    values_to_rename,     \* FieldDataProcessor.values_to_rename
    weather_map_data,     \* what FieldDataProcessor.weather_map_data points at
    df,                   \* FieldDataProcessor.df
    pc,                   \* the next step of a running FieldDataProcessor.process
    ret,                  \* the last call: [op, caller, arg, raised, val]
    before,               \* the processor's table when the last call began
    prev                  \* [op, raised] of the FieldDataProcessor call before the last

vars == <<patterns, weather_station_data, weather_df, database,
          columns_to_rename, values_to_rename, weather_map_data, df, pc,
          ret, before, prev>>

-----------------------------------------------------------------------------
(* Bounds of the model.                                                    *)

MaxMsgLen == 4          \* longest enumerated message, in characters
MaxFieldRows == 2       \* most rows of a field table
MaxWeatherRows == 3     \* most rows of a weather table

-----------------------------------------------------------------------------
(* Helpers.                                                                *)

Range(s) == {s[i] : i \in 1..Len(s)}

Min(S) == CHOOSE x \in S : \A y \in S : x <= y

Abs(n) == IF n < 0 THEN 0 - n ELSE n

RECURSIVE Pow10(_)
Pow10(e) == IF e = 0 THEN 1 ELSE 10 * Pow10(e - 1)

RECURSIVE GCD(_, _)
GCD(a, b) == IF b = 0 THEN a ELSE GCD(b, a % b)

Reverse(s) == [i \in 1..Len(s) |-> s[Len(s) + 1 - i]]

-----------------------------------------------------------------------------
(* Cells.  Every cell has the same five fields so that any two cells can   *)
(* be compared.  A float is the exact rational n/d in lowest terms: the     *)
(* values met here are short decimals and means of a few of them, and the   *)
(* rounding of binary floating point is not modelled.                       *)

None == [t |-> "None", n |-> 0, d |-> 1, s |-> <<>>, k |-> ""]

Ratio(n, d) ==
    LET g == GCD(Abs(n), d)
    IN  [t |-> "float", n |-> n \div g, d |-> d \div g, s |-> <<>>, k |-> ""]

Float(n, e) == Ratio(n, Pow10(e))

Num(n) == [t |-> "int", n |-> n, d |-> 1, s |-> <<>>, k |-> ""]

Str(s) == [t |-> "str", n |-> 0, d |-> 1, s |-> s, k |-> ""]

Name(k) == [t |-> "name", n |-> 0, d |-> 1, s |-> <<>>, k |-> k]

(* Tables.  NoTable stands for a table attribute that is None.             *)

NoTable == [columns |-> <<>>, rows |-> <<>>, none |-> TRUE]

Table(columns, rows) == [columns |-> columns, rows |-> rows, none |-> FALSE]

\* DataFrame.empty: some axis has length 0
Empty(table) == Len(table.rows) = 0 \/ Len(table.columns) = 0

HasColumn(table, label) == label \in Range(table.columns)

ColumnIndex(table, label) ==
    Min({i \in 1..Len(table.columns) : table.columns[i] = label})

\* table[label]: the cells of the column, by row
Column(table, label) ==
    [i \in 1..Len(table.rows) |-> table.rows[i][ColumnIndex(table, label)]]

\* table[label] = cells: an existing column is replaced in place, a new one
\* is appended as the last column
SetColumn(table, label, cells) ==
    IF HasColumn(table, label)
    THEN Table(table.columns,
               [i \in 1..Len(table.rows) |->
                   [table.rows[i] EXCEPT ![ColumnIndex(table, label)] = cells[i]]])
    ELSE Table(Append(table.columns, label),
               [i \in 1..Len(table.rows) |-> Append(table.rows[i], cells[i])])

(* What a data source yields when it is read: an error of the connection   *)
(* or of the read, or a table.                                              *)

Yields(table) == [connect |-> "", error |-> "", table |-> table]

Fails(error) == [connect |-> "", error |-> error, table |-> NoTable]

Unreachable(error) == [connect |-> error, error |-> "", table |-> NoTable]

NoSource == Fails("unset")

NoCall == [op |-> "", caller |-> "", arg |-> <<>>, raised |-> "", val |-> <<>>]

NoPrev == [op |-> "", raised |-> ""]

RECURSIVE Strings(_, _)
Strings(chars, len) ==
    IF len = 0 THEN {<<>>}
    ELSE LET shorter == Strings(chars, len - 1)
         IN  shorter \cup {Append(s, c) : s \in shorter, c \in chars}

-----------------------------------------------------------------------------
(* scripts/data_ingestion.py.  Each function gives [raised, df]: the error *)
(* it raises ("" for none) and the table it returns.                        *)

\* create_db_engine(db_path): the test connection fails or the engine is made
create_db_engine(source) == [raised |-> source.connect]

query_data_unchecked(source) ==
    IF source.connect # "" THEN [raised |-> source.connect, df |-> NoTable]
    ELSE IF source.error # "" THEN [raised |-> source.error, df |-> NoTable]
    ELSE [raised |-> "", df |-> source.table]

\* query_data(engine, sql_query), source being what the query yields
query_data(source) ==
    IF source.connect # "" THEN [raised |-> source.connect, df |-> NoTable]
    ELSE IF source.error # "" THEN [raised |-> source.error, df |-> NoTable]
    ELSE IF Empty(source.table) THEN [raised |-> "ValueError", df |-> NoTable]
    ELSE [raised |-> "", df |-> source.table]

\* pd.read_csv(URL), source being what the URL yields
read_csv(source) ==
    IF source.connect # "" THEN [raised |-> source.connect, df |-> NoTable]
    ELSE IF source.error # "" THEN [raised |-> source.error, df |-> NoTable]
    ELSE [raised |-> "", df |-> source.table]

\* read_from_web_CSV(URL)
read_from_web_CSV(source) ==
    LET read == read_csv(source)
    IN  IF read.raised # "" THEN read
        ELSE IF Empty(read.df) THEN [raised |-> "ValueError", df |-> NoTable]
        ELSE read


-----------------------------------------------------------------------------
(* Regular expressions, as Python's re module matches them.  A node is one *)
(* of: a character class, a sequence, an alternation, a greedy ?, + or *,   *)
(* or a capturing group.  Match gives the matches of a node at a position   *)
(* as the sequence of [e, g] (end position, groups) in the order a          *)
(* backtracking matcher tries them; the first is the one re uses.           *)

Cls(cs) == [t |-> "cls", cs |-> cs, n |-> 0, rs |-> <<>>]

Seqn(rs) == [t |-> "seq", cs |-> {}, n |-> 0, rs |-> rs]

Alt(rs) == [t |-> "alt", cs |-> {}, n |-> 0, rs |-> rs]

Opt(r) == [t |-> "opt", cs |-> {}, n |-> 0, rs |-> <<r>>]

Plus(r) == [t |-> "plus", cs |-> {}, n |-> 0, rs |-> <<r>>]

Star(r) == [t |-> "star", cs |-> {}, n |-> 0, rs |-> <<r>>]

Grp(n, r) == [t |-> "grp", cs |-> {}, n |-> n, rs |-> <<r>>]

Lit(c) == Cls({c})

Digits == {"0", "1", "2", "3", "4", "5", "6", "7", "8", "9"}

WhiteSpace == {" ", "\t", "\n", "\r", "\f"}

NoGroup == [m |-> FALSE, s |-> <<>>]

RECURSIVE NumGroups(_), NumGroupsIn(_, _)
NumGroups(node) ==
    LET inner == NumGroupsIn(node.rs, 1)
    IN  IF node.t = "grp" /\ node.n > inner THEN node.n ELSE inner

NumGroupsIn(rs, k) ==
    IF k > Len(rs) THEN 0
    ELSE LET a == NumGroups(rs[k])
             b == NumGroupsIn(rs, k + 1)
         IN  IF a > b THEN a ELSE b

RECURSIVE Match(_, _, _, _), MatchSeq(_, _, _, _, _), MatchAlt(_, _, _, _, _),
          ThenSeq(_, _, _, _, _), ThenRepeat(_, _, _, _, _)

Match(node, s, i, g) ==
    CASE node.t = "cls" ->
            IF i <= Len(s) /\ s[i] \in node.cs
            THEN <<[e |-> i + 1, g |-> g]>> ELSE <<>>
      [] node.t = "seq" -> MatchSeq(node.rs, 1, s, i, g)
      [] node.t = "alt" -> MatchAlt(node.rs, 1, s, i, g)
      [] node.t = "opt" -> Match(node.rs[1], s, i, g) \o <<[e |-> i, g |-> g]>>
      [] node.t = "plus" ->
            ThenRepeat(Match(node.rs[1], s, i, g), 1, node, s, i)
      [] node.t = "star" ->
            ThenRepeat(Match(node.rs[1], s, i, g), 1, node, s, i)
                \o <<[e |-> i, g |-> g]>>
      [] node.t = "grp" ->
            LET ms == Match(node.rs[1], s, i, g)
            IN  [j \in 1..Len(ms) |->
                    [e |-> ms[j].e,
                     g |-> [ms[j].g EXCEPT ![node.n] =
                              [m |-> TRUE, s |-> SubSeq(s, i, ms[j].e - 1)]]]]

\* the items rs[k..] one after the other
MatchSeq(rs, k, s, i, g) ==
    IF k > Len(rs) THEN <<[e |-> i, g |-> g]>>
    ELSE ThenSeq(Match(rs[k], s, i, g), 1, rs, k + 1, s)

\* each match of an item, continued by the items that follow it
ThenSeq(ms, j, rs, k, s) ==
    IF j > Len(ms) THEN <<>>
    ELSE MatchSeq(rs, k, s, ms[j].e, ms[j].g) \o ThenSeq(ms, j + 1, rs, k, s)

\* the branches rs[k..], leftmost first
MatchAlt(rs, k, s, i, g) ==
    IF k > Len(rs) THEN <<>>
    ELSE Match(rs[k], s, i, g) \o MatchAlt(rs, k + 1, s, i, g)

\* greedy repetition: after one more match of the body, more repetitions
\* are tried before stopping there; an empty body match does not repeat
ThenRepeat(ms, j, node, s, i) ==
    IF j > Len(ms) THEN <<>>
    ELSE (IF ms[j].e > i
          THEN ThenRepeat(Match(node.rs[1], s, ms[j].e, ms[j].g), 1,
                          node, s, ms[j].e)
          ELSE <<>>)
         \o <<ms[j]>> \o ThenRepeat(ms, j + 1, node, s, i)

\* re.search(pattern, message): the match at the leftmost position that has
\* one; groups is match.groups()
Search(pattern, message) ==
    LET n == NumGroups(pattern)
        g0 == [j \in 1..n |-> NoGroup]
        starts == {i \in 1..(Len(message) + 1) :
                      Match(pattern, message, i, g0) # <<>>}
    IN  IF starts = {} THEN [found |-> FALSE, groups |-> <<>>]
        ELSE [found |-> TRUE,
              groups |-> Match(pattern, message, Min(starts), g0)[1].g]

-----------------------------------------------------------------------------
(* float(text) on the texts a capture group can hold here: digits, ".",    *)
(* a sign, white space and other characters that appear in no float        *)
(* literal (the modelled patterns capture no "e", "_", "inf" or "nan").     *)

RECURSIVE Strip(_)
Strip(s) ==
    IF s = <<>> THEN s
    ELSE IF Head(s) \in WhiteSpace THEN Strip(Tail(s))
    ELSE IF s[Len(s)] \in WhiteSpace THEN Strip(SubSeq(s, 1, Len(s) - 1))
    ELSE s

DigitValue(c) ==
    CASE c = "0" -> 0 [] c = "1" -> 1 [] c = "2" -> 2 [] c = "3" -> 3
      [] c = "4" -> 4 [] c = "5" -> 5 [] c = "6" -> 6 [] c = "7" -> 7
      [] c = "8" -> 8 [] c = "9" -> 9

RECURSIVE DigitsValue(_)
DigitsValue(s) ==
    IF s = <<>> THEN 0
    ELSE 10 * DigitsValue(SubSeq(s, 1, Len(s) - 1)) + DigitValue(s[Len(s)])

\* [ok, val]: val is the float, ok = FALSE stands for ValueError
ParseFloat(text) ==
    LET t == Strip(text)
        signed == t # <<>> /\ Head(t) \in {"+", "-"}
        body == IF signed THEN Tail(t) ELSE t
        dots == {i \in 1..Len(body) : body[i] = "."}
        digits == SelectSeq(body, LAMBDA c : c \in Digits)
        valid == /\ \A i \in 1..Len(body) : body[i] \in Digits \cup {"."}
                 /\ Cardinality(dots) <= 1
                 /\ digits # <<>>
        frac == IF dots = {} THEN 0 ELSE Len(body) - Min(dots)
        mag == DigitsValue(digits)
    IN  IF ~valid THEN [ok |-> FALSE, val |-> None]
        ELSE [ok |-> TRUE,
              val |-> Float(IF signed /\ Head(t) = "-" THEN 0 - mag ELSE mag,
                            frac)]

-----------------------------------------------------------------------------
(* WeatherDataProcessor.extract_measurement.  pats is self.patterns, the   *)
(* sequence of [key, pattern] in the mapping's iteration order; message is  *)
(* a cell.  The outcome is [raised, Measurement, Value]; raised = "" is a   *)
(* normal return.                                                           *)

Returned(key, value) == [raised |-> "", Measurement |-> key, Value |-> value]

Raised(error) == [raised |-> error, Measurement |-> None, Value |-> None]

RECURSIVE extract_from(_, _, _)
extract_from(message, pats, k) ==
    IF k > Len(pats) THEN Returned(None, None)
    ELSE IF message.t # "str" THEN Raised("TypeError")
    ELSE LET match == Search(pats[k].pattern, message.s)
             captured == SelectSeq(match.groups, LAMBDA x : x.m)
         IN  IF ~match.found THEN extract_from(message, pats, k + 1)
             ELSE IF captured = <<>> THEN Raised("StopIteration")
             ELSE LET f == ParseFloat(captured[1].s)
                  IN  IF f.ok THEN Returned(Name(pats[k].key), f.val)
                      ELSE Raised("ValueError")

extract_measurement_last_match(message, pats) ==
    extract_from(message, Reverse(pats), 1)

extract_measurement(message, pats) == extract_from(message, pats, 1)

-----------------------------------------------------------------------------
(* FieldDataProcessor.  Each method gives [raised, df, val]: the error it  *)
(* raises ("" for none), self.df when it ends, and what it returns.         *)
(* Mappings (dicts) are sequences of [key, value] in insertion order.       *)

Outcome(raised, table, val) == [raised |-> raised, df |-> table, val |-> val]

\* ingest_sql_data
ingest_sql_data(table, source) ==
    IF create_db_engine(source).raised # ""
    THEN Outcome(create_db_engine(source).raised, table, NoTable)
    ELSE LET q == query_data(source)
         IN  IF q.raised # "" THEN Outcome(q.raised, table, NoTable)
             ELSE Outcome("", q.df, q.df)

\* the temporary label of rename_columns: underscores are added while the
\* label is one of the table's
RECURSIVE TempName(_, _)
TempName(temp_name, columns) ==
    IF temp_name \in Range(columns) THEN TempName(temp_name \o "_", columns)
    ELSE temp_name

\* {a: b, c: d} as a dict display: of two equal keys the later one stays
Dict(pairs) ==
    SelectSeq([i \in 1..Len(pairs) |->
                  IF \E j \in (i + 1)..Len(pairs) : pairs[j].key = pairs[i].key
                  THEN [key |-> "", value |-> "", kept |-> FALSE]
                  ELSE [key |-> pairs[i].key, value |-> pairs[i].value,
                        kept |-> TRUE]],
              LAMBDA p : p.kept)

\* DataFrame.rename(columns=mapping): every label that is a key of the
\* mapping becomes its value, the others stay; a key that is no label is
\* ignored
Rename(table, mapping) ==
    Table([i \in 1..Len(table.columns) |->
              IF \E j \in 1..Len(mapping) : mapping[j].key = table.columns[i]
              THEN mapping[CHOOSE j \in 1..Len(mapping) :
                               mapping[j].key = table.columns[i]].value
              ELSE table.columns[i]],
          table.rows)

rename_columns_without_temp(table, renames) ==
    IF renames = <<>> THEN Outcome("IndexError", table, NoTable)
    ELSE IF table.none THEN Outcome("AttributeError", table, NoTable)
    ELSE LET column1 == renames[1].key
             column2 == renames[1].value
             first == Rename(table, Dict(<<[key |-> column1, value |-> column2]>>))
         IN  Outcome("", Rename(first, Dict(<<[key |-> column2, value |-> column1]>>)),
                     NoTable)

\* rename_columns
rename_columns(table, renames) ==
    IF renames = <<>> THEN Outcome("IndexError", table, NoTable)
    ELSE IF table.none THEN Outcome("AttributeError", table, NoTable)
    ELSE LET column1 == renames[1].key
             column2 == renames[1].value
             temp_name == TempName("__temp_name_for_swap__", table.columns)
             first == Rename(table, Dict(<<[key |-> column1, value |-> temp_name],
                                           [key |-> column2, value |-> column1]>>))
         IN  Outcome("", Rename(first, Dict(<<[key |-> temp_name, value |-> column2]>>)),
                     NoTable)

\* Series.abs() on one cell (NaN stays NaN)
AbsCell(cell) == IF cell.t \in {"int", "float"} THEN [cell EXCEPT !.n = Abs(cell.n)] ELSE cell

\* values.get(crop, crop): the keys are texts, so only a text can be one
Get(values, crop) ==
    IF crop.t = "str" /\ \E j \in 1..Len(values) : values[j].key = crop.s
    THEN Str(values[CHOOSE j \in 1..Len(values) : values[j].key = crop.s].value)
    ELSE crop

apply_corrections_erasing(table, values) ==
    IF table.none THEN Outcome("TypeError", table, NoTable)
    ELSE IF ~HasColumn(table, "Elevation") THEN Outcome("KeyError", table, NoTable)
    ELSE IF \E c \in Range(Column(table, "Elevation")) : c.t \in {"str", "name"}
    THEN Outcome("TypeError", table, NoTable)
    ELSE LET elevation == Column(table, "Elevation")
             absolute == SetColumn(table, "Elevation",
                            [i \in 1..Len(elevation) |-> AbsCell(elevation[i])])
         IN  IF ~HasColumn(absolute, "Crop_type")
             THEN Outcome("KeyError", absolute, NoTable)
             ELSE LET crops == Column(absolute, "Crop_type")
                  IN  Outcome("", SetColumn(absolute, "Crop_type",
                                     [i \in 1..Len(crops) |->
                                         IF Get(values, crops[i]) = crops[i]
                                         THEN None ELSE Get(values, crops[i])]),
                              NoTable)

apply_corrections_keeping_sign(table, values) ==
    IF table.none THEN Outcome("TypeError", table, NoTable)
    ELSE IF ~HasColumn(table, "Elevation") THEN Outcome("KeyError", table, NoTable)
    ELSE IF \E c \in Range(Column(table, "Elevation")) : c.t \in {"str", "name"}
    THEN Outcome("TypeError", table, NoTable)
    ELSE IF ~HasColumn(table, "Crop_type") THEN Outcome("KeyError", table, NoTable)
    ELSE LET crops == Column(table, "Crop_type")
         IN  Outcome("", SetColumn(table, "Crop_type",
                            [i \in 1..Len(crops) |-> Get(values, crops[i])]),
                     NoTable)

apply_corrections_values_first(table, values) ==
    IF table.none THEN Outcome("TypeError", table, NoTable)
    ELSE IF ~HasColumn(table, "Crop_type") THEN Outcome("KeyError", table, NoTable)
    ELSE LET crops == Column(table, "Crop_type")
             corrected == SetColumn(table, "Crop_type",
                             [i \in 1..Len(crops) |-> Get(values, crops[i])])
         IN  IF ~HasColumn(corrected, "Elevation")
             THEN Outcome("KeyError", corrected, NoTable)
             ELSE IF \E c \in Range(Column(corrected, "Elevation")) :
                        c.t \in {"str", "name"}
             THEN Outcome("TypeError", corrected, NoTable)
             ELSE LET elevation == Column(corrected, "Elevation")
                  IN  Outcome("", SetColumn(corrected, "Elevation",
                                     [i \in 1..Len(elevation) |->
                                         AbsCell(elevation[i])]),
                              NoTable)

\* apply_corrections
apply_corrections(table, values) ==
    IF table.none THEN Outcome("TypeError", table, NoTable)
    ELSE IF ~HasColumn(table, "Elevation") THEN Outcome("KeyError", table, NoTable)
    ELSE IF \E c \in Range(Column(table, "Elevation")) : c.t \in {"str", "name"}
    THEN Outcome("TypeError", table, NoTable)
    ELSE LET elevation == Column(table, "Elevation")
             absolute == SetColumn(table, "Elevation",
                            [i \in 1..Len(elevation) |-> AbsCell(elevation[i])])
         IN  IF ~HasColumn(absolute, "Crop_type")
             THEN Outcome("KeyError", absolute, NoTable)
             ELSE LET crops == Column(absolute, "Crop_type")
                  IN  Outcome("", SetColumn(absolute, "Crop_type",
                                     [i \in 1..Len(crops) |-> Get(values, crops[i])]),
                              NoTable)

\* left.merge(right, on=key, how='left'): the left rows in their order, each
\* once per right row with its key, in the right rows' order, or once with
\* nulls when no right row has it; a label of both tables other than the key
\* gets the suffix _x on the left and _y on the right
RECURSIVE MergeRows(_, _, _, _)
MergeRows(left, right, key, i) ==
    IF i > Len(left.rows) THEN <<>>
    ELSE LET k == left.rows[i][ColumnIndex(left, key)]
             others == SelectSeq([c \in 1..Len(right.columns) |-> c],
                                 LAMBDA c : right.columns[c] # key)
             matches == SelectSeq(right.rows,
                                  LAMBDA r : r[ColumnIndex(right, key)] = k)
             joined == IF matches = <<>>
                       THEN <<left.rows[i] \o [c \in 1..Len(others) |-> None]>>
                       ELSE [m \in 1..Len(matches) |->
                                left.rows[i] \o
                                [c \in 1..Len(others) |-> matches[m][others[c]]]]
         IN  joined \o MergeRows(left, right, key, i + 1)

Merge(left, right, key) ==
    LET shared == (Range(left.columns) \cap Range(right.columns)) \ {key}
        others == SelectSeq(right.columns, LAMBDA c : c # key)
    IN  Table([c \in 1..Len(left.columns) |->
                  IF left.columns[c] \in shared THEN left.columns[c] \o "_x"
                  ELSE left.columns[c]]
              \o [c \in 1..Len(others) |->
                  IF others[c] \in shared THEN others[c] \o "_y" ELSE others[c]],
              MergeRows(left, right, key, 1))

\* table[label] = series: the cell of a row is the series' value at the row's
\* index label, NaN where the series has none
Aligned(table, series) ==
    [i \in 1..Len(table.rows) |-> IF i <= Len(series) THEN series[i] ELSE None]

\* weather_station_mapping
weather_station_mapping(table, source) ==
    IF table.none THEN Outcome("AttributeError", table, NoTable)
    ELSE IF read_csv(source).raised # ""
    THEN Outcome(read_csv(source).raised, table, NoTable)
    ELSE IF ~HasColumn(table, "Field_ID") \/ ~HasColumn(read_csv(source).df, "Field_ID")
    THEN Outcome("KeyError", table, NoTable)
    ELSE LET weather_mapping_df == Merge(table, read_csv(source).df, "Field_ID")
         IN  IF ~HasColumn(weather_mapping_df, "Unnamed: 0")
             THEN Outcome("KeyError", table, NoTable)
             ELSE IF ~HasColumn(weather_mapping_df, "Weather_station")
             THEN Outcome("KeyError", table, NoTable)
             ELSE LET joined ==
                          SetColumn(table, "Weather_station",
                              Aligned(table, Column(weather_mapping_df,
                                                    "Weather_station")))
                      fetched == read_from_web_CSV(source)
                  IN  Outcome(fetched.raised, joined, fetched.df)


-----------------------------------------------------------------------------
(* WeatherDataProcessor.  Each method gives [raised, df, val]: the error   *)
(* it raises ("" for none), self.weather_df when it ends, and what it       *)
(* returns.                                                                 *)

\* WeatherDataProcessor.weather_station_mapping
load_weather_station_data(table, source) ==
    LET fetched == read_from_web_CSV(source)
    IN  IF fetched.raised # "" THEN Outcome(fetched.raised, table, NoTable)
        ELSE Outcome("", fetched.df, NoTable)

\* Series.apply(self.extract_measurement): one result for each message
Apply(messages, pats) ==
    [i \in 1..Len(messages) |-> extract_measurement(messages[i], pats)]

\* zip(*result) and the assignment of its two tuples to the columns
\* Measurement and Value.  The first call that raises ends the apply; of no
\* result at all zip(*result) is empty, and unpacking it is a ValueError.
Unzip(table, result) ==
    LET failed == {i \in 1..Len(result) : result[i].raised # ""}
        processed ==
            SetColumn(SetColumn(table, "Measurement",
                                [i \in 1..Len(result) |-> result[i].Measurement]),
                      "Value", [i \in 1..Len(result) |-> result[i].Value])
    IN  IF failed # {} THEN Outcome(result[Min(failed)].raised, table, NoTable)
        ELSE IF result = <<>> THEN Outcome("ValueError", table, NoTable)
        ELSE Outcome("", processed, processed)

\* the rows of a table whose message matches a pattern
Matched(table, pats) ==
    Table(table.columns,
          SelectSeq(table.rows,
                    LAMBDA r : extract_measurement(
                                   r[ColumnIndex(table, "Message")], pats)
                               .Measurement # None))

process_messages_dropping_unmatched(table, pats) ==
    IF table.none THEN Outcome("", table, table)
    ELSE IF ~HasColumn(table, "Message") THEN Outcome("KeyError", table, NoTable)
    ELSE Unzip(Matched(table, pats),
               Apply(Column(Matched(table, pats), "Message"), pats))

\* process_messages
process_messages(table, pats) ==
    IF table.none THEN Outcome("", table, table)
    ELSE IF ~HasColumn(table, "Message") THEN Outcome("KeyError", table, NoTable)
    ELSE Unzip(table, Apply(Column(table, "Message"), pats))

\* the sum of the floats of a sequence of cells
RECURSIVE Sum(_)
Sum(cells) ==
    IF cells = <<>> THEN Ratio(0, 1)
    ELSE LET rest == Sum(Tail(cells))
         IN  Ratio(Head(cells).n * rest.d + rest.n * Head(cells).d,
                   Head(cells).d * rest.d)

\* Series.mean(): the NaN are skipped, and the mean of nothing is NaN
Mean(cells) ==
    LET values == SelectSeq(cells, LAMBDA c : c # None)
    IN  IF values = <<>> THEN None
        ELSE Ratio(Sum(values).n, Sum(values).d * Len(values))

\* the rows of the group (station, measurement)
Group(table, station, measurement) ==
    SelectSeq(table.rows,
              LAMBDA r : /\ r[ColumnIndex(table, "Weather_station_ID")] = station
                         /\ r[ColumnIndex(table, "Measurement")] = measurement)

\* groupby(by=['Weather_station_ID', 'Measurement'])['Value'].mean().unstack():
\* a row with a null key is in no group; the summary has the stations of the
\* groups as its index, their measurements as its columns, and NaN in the
\* cell of a pair that is no group.  The summary is [index, columns, cell];
\* the sorted order of its rows and columns is not modelled.
Summary(table, fill) ==
    LET keyed == SelectSeq(table.rows,
                    LAMBDA r : /\ r[ColumnIndex(table, "Weather_station_ID")] # None
                               /\ r[ColumnIndex(table, "Measurement")] # None)
        stations == {r[ColumnIndex(table, "Weather_station_ID")] : r \in Range(keyed)}
        measurements == {r[ColumnIndex(table, "Measurement")] : r \in Range(keyed)}
        value == ColumnIndex(table, "Value")
    IN  [index |-> stations,
         columns |-> measurements,
         cell |-> [p \in stations \X measurements |->
                      LET group == Group(table, p[1], p[2])
                      IN  IF group = <<>> THEN fill
                          ELSE Mean([i \in 1..Len(group) |-> group[i][value]])]]

NoSummary == [index |-> {}, columns |-> {}, cell |-> <<>>]

calculate_means_zero_filled(table, object_mean_fails) ==
    IF table.none THEN Outcome("", table, NoSummary)
    ELSE IF {"Weather_station_ID", "Measurement", "Value"} \subseteq Range(table.columns)
    THEN Outcome("", table, Summary(table, Ratio(0, 1)))
    ELSE Outcome("KeyError", table, NoSummary)

\* calculate_means.  A Value column that holds nothing but None is an object
\* column, whose mean some versions of pandas refuse: object_mean_fails
\* says whether the installed one does.
calculate_means(table, object_mean_fails) ==
    IF table.none THEN Outcome("", table, NoSummary)
    ELSE IF ~({"Weather_station_ID", "Measurement", "Value"}
                 \subseteq Range(table.columns))
    THEN Outcome("KeyError", table, NoSummary)
    ELSE IF object_mean_fails
            /\ \A c \in Range(Column(table, "Value")) : c = None
    THEN Outcome("DataError", table, NoSummary)
    ELSE Outcome("", table, Summary(table, None))

\* the outcome of a method that changes what out changed and returns val
Returning(out, val) == Outcome(out.raised, out.df, val)

\* WeatherDataProcessor.process
process_weather(table, source, pats) ==
    LET loaded == load_weather_station_data(table, source)
    IN  IF loaded.raised # "" THEN loaded
        ELSE Returning(process_messages(loaded.df, pats), NoTable)


-----------------------------------------------------------------------------
(* Pattern mappings.  regex_patterns is the mapping of the test            *)
(* configuration; the others are caller-supplied mappings that overlap, or  *)
(* whose match gives float() nothing it can parse.                          *)

Digit == Cls(Digits)

Lits(text) == Seqn([i \in 1..Len(text) |-> Lit(text[i])])

\* \d+(\.\d+)?   with the inner group numbered g
NumberRe(g) == Seqn(<<Plus(Digit), Opt(Grp(g, Seqn(<<Lit("."), Plus(Digit)>>)))>>)

\* -?\d+(\.\d+)?
SignedRe(g) == Seqn(<<Opt(Lit("-")), NumberRe(g)>>)

\* (\d+(\.\d+)?)\s?mm
RainfallRe == Seqn(<<Grp(1, NumberRe(2)), Opt(Cls(WhiteSpace)), Lit("m"), Lit("m")>>)

\* (\d+(\.\d+)?)\s?C
TemperatureRe == Seqn(<<Grp(1, NumberRe(2)), Opt(Cls(WhiteSpace)), Lit("C")>>)

\* =\s*(-?\d+(\.\d+)?)|Pollution at \s*(-?\d+(\.\d+)?)
PollutionRe ==
    Alt(<<Seqn(<<Lit("="), Star(Cls(WhiteSpace)), Grp(1, SignedRe(2))>>),
          Seqn(<<Lits(<<"P", "o", "l", "l", "u", "t", "i", "o", "n", " ", "a", "t", " ">>), Star(Cls(WhiteSpace)), Grp(3, SignedRe(4))>>)>>)

regex_patterns ==
    <<[key |-> "Rainfall", pattern |-> RainfallRe],
      [key |-> "Temperature", pattern |-> TemperatureRe],
      [key |-> "Pollution_level", pattern |-> PollutionRe]>>

\* {'Rainfall': r'(\d+(\.\d+)?)\s?mm', 'Reading': r'(\d)'}
OverlappingPatterns ==
    <<[key |-> "Rainfall", pattern |-> RainfallRe],
      [key |-> "Reading", pattern |-> Grp(1, Digit)]>>

\* {'Rainfall': r'\d+mm'}
UngroupedPatterns ==
    <<[key |-> "Rainfall", pattern |-> Seqn(<<Plus(Digit), Lit("m"), Lit("m")>>)]>>

\* {'Rainfall': r'(\d+)?mm'}
OptionalGroupPatterns ==
    <<[key |-> "Rainfall",
       pattern |-> Seqn(<<Opt(Grp(1, Plus(Digit))), Lit("m"), Lit("m")>>)]>>

\* {'Temperature': r'([\d.]*)C'}
LoosePatterns ==
    <<[key |-> "Temperature",
       pattern |-> Seqn(<<Grp(1, Star(Cls(Digits \cup {"."}))), Lit("C")>>)]>>

PatternSets ==
    {regex_patterns, OverlappingPatterns, Reverse(OverlappingPatterns),
     UngroupedPatterns, OptionalGroupPatterns, LoosePatterns, <<>>}

MsgChars == {"1", "2", ".", "m", "C"}

ScenarioMessages ==
    {<<"R", "a", "i", "n", "f", "a", "l", "l", ":", " ", "2", "5", ".", "4", "m", "m">>, <<"n", "o", " ", "d", "a", "t", "a">>, <<"P", "o", "l", "l", "u", "t", "i", "o", "n", " ", "a", "t", " ", "1", ".", "2">>, <<"=", " ", "-", "2", ".", "5">>, <<"1", "2", " ", "m", "m">>}

Messages ==
    {Str(s) : s \in Strings(MsgChars, MaxMsgLen) \cup ScenarioMessages}
        \cup {None}

-----------------------------------------------------------------------------
(* One call of extract_measurement on a processor constructed with one of  *)
(* the pattern mappings (the function reads nothing but its message and     *)
(* self.patterns, so a second call adds nothing).                           *)

\* no WeatherDataProcessor input, no FieldDataProcessor, no call made yet
NoWeatherInput ==
    /\ weather_station_data = NoSource
    /\ weather_df = NoTable

NoFieldProcessor ==
    /\ database = NoSource
    /\ columns_to_rename = <<>>
    /\ values_to_rename = <<>>
    /\ weather_map_data = NoSource
    /\ df = NoTable
    /\ pc = "idle"

NoCallYet ==
    /\ ret = NoCall
    /\ before = NoTable
    /\ prev = NoPrev

InitExtract ==
    /\ patterns \in PatternSets
    /\ NoWeatherInput
    /\ NoFieldProcessor
    /\ NoCallYet

ExtractMeasurement ==
    /\ ret = NoCall
    /\ \E message \in Messages :
          LET r == extract_measurement(message, patterns)
          IN  ret' = [op |-> "extract_measurement", caller |-> "",
                      arg |-> message, raised |-> r.raised,
                      val |-> <<r.Measurement, r.Value>>]
    /\ UNCHANGED <<patterns, weather_station_data, weather_df, database,
                   columns_to_rename, values_to_rename, weather_map_data, df,
                   pc, before, prev>>

NextExtract == ExtractMeasurement

SpecExtract == InitExtract /\ [][NextExtract]_vars

-----------------------------------------------------------------------------
(* Inputs of the field pipeline: the configuration of the test module and  *)
(* variations of it, and what the database and the mapping file may hold.   *)

\* "columns_to_rename" of the test configuration
columns_to_rename_config ==
    <<[key |-> "Annual_yield", value |-> "Crop_type"],
      [key |-> "Crop_type", value |-> "Annual_yield"]>>

\* "values_to_rename" of the test configuration
values_to_rename_config ==
    <<[key |-> <<"c", "a", "s", "s", "a", "v", "a", "l">>, value |-> <<"c", "a", "s", "s", "a", "v", "a">>],
      [key |-> <<"w", "h", "e", "a", "t", "n">>, value |-> <<"w", "h", "e", "a", "t">>],
      [key |-> <<"t", "e", "a", "a">>, value |-> <<"t", "e", "a">>]>>

ColumnPairs ==
    {columns_to_rename_config,
     <<[key |-> "__temp_name_for_swap__", value |-> "Crop_type"]>>}

ValueMaps == {values_to_rename_config, <<>>}

\* the columns of the survey query that the processor reads; at the source
\* the label Crop_type is on the yields and Annual_yield on the crop names
SurveyColumns == <<"Field_ID", "Elevation", "Crop_type", "Annual_yield">>

SurveyRows ==
    {<<Num(1), Float(0 - 35, 1), Float(5, 1), Str(<<"c", "a", "s", "s", "a", "v", "a", "l">>)>>,
     <<Num(2), Float(4, 0), Float(7, 1), Str(<<"T", "e", "a">>)>>,
     <<Num(7), Float(0 - 1, 0), Float(5, 1), Str(<<"r", "y", "e">>)>>}

RECURSIVE Tables(_, _)
Tables(rows, len) ==
    IF len = 0 THEN {<<>>}
    ELSE LET shorter == Tables(rows, len - 1)
         IN  shorter \cup {Append(t, r) : t \in shorter, r \in rows}

\* the table without the column at position c
Without(table, c) ==
    LET drop(r) == SubSeq(r, 1, c - 1) \o SubSeq(r, c + 1, Len(r))
    IN  Table(drop(table.columns), [i \in 1..Len(table.rows) |-> drop(table.rows[i])])

SurveyTables ==
    LET full == {Table(SurveyColumns, rows) : rows \in Tables(SurveyRows, MaxFieldRows)}
    IN  full
        \cup {Without(t, c) : t \in full, c \in 1..Len(SurveyColumns)}
        \cup {Table(Append(t.columns, "__temp_name_for_swap__"),
                    [i \in 1..Len(t.rows) |-> Append(t.rows[i], None)]) : t \in full}

Databases ==
    {Yields(t) : t \in SurveyTables}
        \cup {Unreachable("OperationalError"), Fails("OperationalError")}

MappingColumns == <<"Unnamed: 0", "Field_ID", "Weather_station">>

MappingFiles ==
    {Yields(Table(MappingColumns,
                  <<<<Num(0), Num(1), Num(4)>>, <<Num(1), Num(2), Num(0)>>>>)),
     Yields(Table(MappingColumns,
                  <<<<Num(0), Num(1), Num(4)>>, <<Num(1), Num(1), Num(3)>>,
                    <<Num(2), Num(2), Num(0)>>>>)),
     Yields(Table(MappingColumns, <<>>)),
     Yields(Table(<<"Field_ID", "Weather_station">>,
                  <<<<Num(1), Num(4)>>, <<Num(2), Num(0)>>>>)),
     Unreachable("URLError")}

-----------------------------------------------------------------------------
(* The field pipeline: a FieldDataProcessor is constructed on a            *)
(* configuration, and its methods are called one at a time in any order;    *)
(* process calls the four steps in its fixed order and stops at the first   *)
(* that raises.                                                             *)

NoWeatherProcessor ==
    /\ patterns = <<>>
    /\ NoWeatherInput

InitField ==
    /\ database \in Databases
    /\ columns_to_rename \in ColumnPairs
    /\ values_to_rename \in ValueMaps
    /\ weather_map_data \in MappingFiles
    /\ df = NoTable
    /\ pc = "idle"
    /\ NoWeatherProcessor
    /\ NoCallYet

\* a call of a FieldDataProcessor method with outcome out
FieldCall(op, caller, out, next) ==
    /\ df' = out.df
    /\ ret' = [op |-> op, caller |-> caller, arg |-> <<>>,
               raised |-> out.raised, val |-> out.val]
    /\ before' = df
    /\ prev' = [op |-> ret.op, raised |-> ret.raised]
    /\ pc' = IF out.raised = "" THEN next ELSE "idle"
    /\ UNCHANGED <<patterns, weather_station_data, weather_df, database,
                   columns_to_rename, values_to_rename, weather_map_data>>

IngestSqlData ==
    /\ pc = "idle"
    /\ FieldCall("ingest_sql_data", "", ingest_sql_data(df, database), "idle")

RenameColumns ==
    /\ pc = "idle"
    /\ FieldCall("rename_columns", "", rename_columns(df, columns_to_rename), "idle")

ApplyCorrections ==
    /\ pc = "idle"
    /\ FieldCall("apply_corrections", "", apply_corrections(df, values_to_rename), "idle")

WeatherStationMapping ==
    /\ pc = "idle"
    /\ FieldCall("weather_station_mapping", "",
                 weather_station_mapping(df, weather_map_data), "idle")

ProcessIngest ==
    /\ pc = "idle"
    /\ FieldCall("ingest_sql_data", "process", ingest_sql_data(df, database),
                 "rename_columns")

ProcessRename ==
    /\ pc = "rename_columns"
    /\ FieldCall("rename_columns", "process",
                 rename_columns(df, columns_to_rename), "apply_corrections")

ProcessCorrections ==
    /\ pc = "apply_corrections"
    /\ FieldCall("apply_corrections", "process",
                 apply_corrections(df, values_to_rename), "weather_station_mapping")

ProcessMapping ==
    /\ pc = "weather_station_mapping"
    /\ FieldCall("weather_station_mapping", "process",
                 weather_station_mapping(df, weather_map_data), "idle")

NextField ==
    \/ IngestSqlData
    \/ RenameColumns
    \/ ApplyCorrections
    \/ WeatherStationMapping
    \/ ProcessIngest
    \/ ProcessRename
    \/ ProcessCorrections
    \/ ProcessMapping

SpecField == InitField /\ [][NextField]_vars

-----------------------------------------------------------------------------
(* The weather pipeline: a WeatherDataProcessor is constructed on a        *)
(* pattern mapping and a weather file, and its methods are called one at a  *)
(* time in any order.                                                       *)

WeatherColumns == <<"Weather_station_ID", "Message">>

WeatherRows ==
    {<<Name("S1"), Str(<<"1", "0", "m", "m">>)>>, <<Name("S1"), Str(<<"2", "0", "m", "m">>)>>,
     <<Name("S1"), Str(<<"3", "0", "m", "m">>)>>,
     <<Name("S2"), Str(<<"5", "C">>)>>, <<Name("S2"), Str(<<"n", "o", " ", "d", "a", "t", "a">>)>>}

WeatherFiles ==
    {Yields(Table(WeatherColumns, rows)) : rows \in Tables(WeatherRows, MaxWeatherRows)}
        \cup {Unreachable("URLError"), Fails("EmptyDataError")}

WeatherPatternSets == {regex_patterns, UngroupedPatterns}

InitWeather ==
    /\ patterns \in WeatherPatternSets
    /\ weather_station_data \in WeatherFiles
    /\ weather_df = NoTable
    /\ NoFieldProcessor
    /\ NoCallYet

\* a call of a WeatherDataProcessor method with outcome out
WeatherCall(op, out) ==
    /\ weather_df' = out.df
    /\ ret' = [op |-> op, caller |-> "", arg |-> <<>>,
               raised |-> out.raised, val |-> out.val]
    /\ before' = weather_df
    /\ UNCHANGED <<patterns, weather_station_data, database, columns_to_rename,
                   values_to_rename, weather_map_data, df, pc, prev>>

LoadWeatherStationData ==
    \E out \in {load_weather_station_data(weather_df, weather_station_data)} :
        WeatherCall("weather_station_mapping", out)

ProcessMessages ==
    \E out \in {process_messages(weather_df, patterns)} :
        WeatherCall("process_messages", out)

CalculateMeans ==
    \E object_mean_fails \in BOOLEAN :
        \E out \in {calculate_means(weather_df, object_mean_fails)} :
            WeatherCall("calculate_means", out)

ProcessWeather ==
    \E out \in {process_weather(weather_df, weather_station_data, patterns)} :
        WeatherCall("process", out)

NextWeather ==
    \/ LoadWeatherStationData
    \/ ProcessMessages
    \/ CalculateMeans
    \/ ProcessWeather

SpecWeather == InitWeather /\ [][NextWeather]_vars

-----------------------------------------------------------------------------
(* Calls of the two fetch functions of data_ingestion on what a source may *)
(* yield.                                                                   *)

Sources ==
    Databases \cup MappingFiles \cup {Fails("EmptyDataError")}

InitIngest ==
    /\ NoWeatherProcessor
    /\ NoFieldProcessor
    /\ NoCallYet

Fetch(op, source, out) ==
    ret' = [op |-> op, caller |-> "", arg |-> source,
            raised |-> out.raised, val |-> out.df]

QueryData ==
    /\ \E source \in Sources : Fetch("query_data", source, query_data(source))
    /\ UNCHANGED <<patterns, weather_station_data, weather_df, database,
                   columns_to_rename, values_to_rename, weather_map_data, df,
                   pc, before, prev>>

ReadFromWebCSV ==
    /\ \E source \in Sources :
          Fetch("read_from_web_CSV", source, read_from_web_CSV(source))
    /\ UNCHANGED <<patterns, weather_station_data, weather_df, database,
                   columns_to_rename, values_to_rename, weather_map_data, df,
                   pc, before, prev>>

NextIngest ==
    \/ QueryData
    \/ ReadFromWebCSV

SpecIngest == InitIngest /\ [][NextIngest]_vars

-----------------------------------------------------------------------------
(* Properties of extract_measurement, under SpecExtract.                   *)

\* The patterns of the mapping that match the message, by position.
Matching(message, pats) ==
    {k \in 1..Len(pats) : Search(pats[k].pattern, message.s).found}

\* C1: when extract_measurement returns for a message that matches one or
\* more patterns of the mapping, the returned category is the key of the
\* first matching pattern in the mapping's order and the returned value is
\* the first non-null capture group of that pattern's match, parsed as a float.
C1_FirstMatchingPatternWins ==
    (ret.op = "extract_measurement" /\ ret.raised = "" /\ ret.arg.t = "str"
        /\ Matching(ret.arg, patterns) # {}) =>
        LET k == Min(Matching(ret.arg, patterns))
            groups == Search(patterns[k].pattern, ret.arg.s).groups
            captured == SelectSeq(groups, LAMBDA x : x.m)
        IN  /\ ret.val[1] = Name(patterns[k].key)
            /\ captured # <<>>
            /\ ParseFloat(captured[1].s).ok
            /\ ret.val[2] = ParseFloat(captured[1].s).val

\* a message that matches two patterns of the mapping was parsed
C1_Witness ==
    /\ ret.op = "extract_measurement" /\ ret.raised = "" /\ ret.arg.t = "str"
    /\ Cardinality(Matching(ret.arg, patterns)) >= 2
    /\ ret.val[1] = Name(patterns[1].key)
    /\ ret.val[2].t = "float"

\* C2: extract_measurement is total: for every message text and every pattern
\* mapping it returns, without raising, either a (category, float) pair or
\* (None, None), never a pair with one field filled.
C2_ExtractIsTotal ==
    (ret.op = "extract_measurement" /\ ret.arg.t = "str") =>
        /\ ret.raised = ""
        /\ \/ ret.val = <<None, None>>
           \/ ret.val[1].t = "name" /\ ret.val[2].t = "float"

-----------------------------------------------------------------------------
(* Properties of the field pipeline, under SpecField.                      *)

\* the stations that the mapping file's table gives a field
StationsOf(mapping, field) ==
    {mapping.rows[j][ColumnIndex(mapping, "Weather_station")] :
        j \in {j \in 1..Len(mapping.rows) :
                  mapping.rows[j][ColumnIndex(mapping, "Field_ID")] = field}}

WellFormedMapping(source) ==
    /\ source.connect = "" /\ source.error = ""
    /\ Range(source.table.columns) = Range(MappingColumns)
    /\ source.table.rows # <<>>

\* C3: after weather_station_mapping every row that went in comes out exactly
\* once, with the Weather_station of its Field_ID's entry in the mapping, or
\* a null Weather_station when its Field_ID has no entry; and with a
\* well-formed mapping file no error is raised, whatever keys are unmapped.
C3_EveryRowJoinedOnce ==
    /\ (ret.op = "weather_station_mapping" /\ ret.raised = "") =>
          /\ df.columns = Append(before.columns, "Weather_station")
          /\ Len(df.rows) = Len(before.rows)
          /\ \A i \in 1..Len(df.rows) :
                LET field == before.rows[i][ColumnIndex(before, "Field_ID")]
                    stations == StationsOf(weather_map_data.table, field)
                    station == df.rows[i][Len(df.columns)]
                IN  /\ SubSeq(df.rows[i], 1, Len(before.columns)) = before.rows[i]
                    /\ IF stations = {} THEN station = None
                       ELSE station \in stations
    /\ (ret.op = "weather_station_mapping" /\ WellFormedMapping(weather_map_data)
            /\ ~before.none /\ HasColumn(before, "Field_ID")
            /\ ~HasColumn(before, "Weather_station")) => ret.raised = ""

\* C5: two calls of rename_columns in a row leave the table as it was before
\* the first: the same labels in the same positions over the same values.
C5_RenameTwiceRestores ==
    [][(/\ ret.op = "rename_columns" /\ ret.raised = ""
        /\ ret'.op = "rename_columns" /\ ret'.raised = ""
        /\ before' = df) => df' = before]_vars

\* rename_columns ran twice in a row on a table with both columns of the
\* pair, and each call exchanged their labels
C5_Witness ==
    /\ prev.op = "rename_columns" /\ prev.raised = ""
    /\ ret.op = "rename_columns" /\ ret.raised = ""
    /\ HasColumn(df, columns_to_rename[1].key)
    /\ HasColumn(df, columns_to_rename[1].value)
    /\ df.columns # before.columns
    /\ df.rows # <<>>

LaterStep == {"rename_columns", "apply_corrections", "weather_station_mapping"}

\* C8: a later step called on a processor whose table was never ingested is
\* rejected with a "not initialized" error, and the table stays None.
C8_NotInitializedIsRejected ==
    (ret.op \in LaterStep /\ before.none) =>
        /\ ret.raised = "NotInitializedError"
        /\ df.none

\* C9: a step whose expected column is absent from the table raises an error
\* and adds no column.
C9_SchemaMismatchFailsFast ==
    LET expected ==
            CASE ret.op = "rename_columns" ->
                    {columns_to_rename[1].key, columns_to_rename[1].value}
              [] ret.op = "apply_corrections" -> {"Crop_type", "Elevation"}
              [] ret.op = "weather_station_mapping" -> {"Field_ID"}
              [] OTHER -> {}
    IN  (ret.op \in LaterStep /\ ~before.none
            /\ ~(expected \subseteq Range(before.columns))) =>
            /\ ret.raised # ""
            /\ Range(df.columns) \subseteq Range(before.columns)

\* the crop vocabulary of test_crop_types_are_valid
valid_crop_types ==
    {<<"c", "a", "s", "s", "a", "v", "a">>, <<"t", "e", "a">>,
     <<"w", "h", "e", "a", "t">>, <<"p", "o", "t", "a", "t", "o">>,
     <<"b", "a", "n", "a", "n", "a">>, <<"c", "o", "f", "f", "e", "e">>,
     <<"r", "i", "c", "e">>, <<"m", "a", "i", "z", "e">>}

UpperCase ==
    <<"A", "B", "C", "D", "E", "F", "G", "H", "I", "J", "K", "L", 
     "M", "N", "O", "P", "Q", "R", "S", "T", "U", "V", "W", "X", "Y", "Z">>

LowerCase ==
    <<"a", "b", "c", "d", "e", "f", "g", "h", "i", "j", "k", "l", 
     "m", "n", "o", "p", "q", "r", "s", "t", "u", "v", "w", "x", "y", "z">>

\* str.lower()
Lower(text) ==
    [i \in 1..Len(text) |->
        IF text[i] \in Range(UpperCase)
        THEN LowerCase[CHOOSE j \in 1..Len(UpperCase) : UpperCase[j] = text[i]]
        ELSE text[i]]

\* .str.lower().str.strip() of the value is in the vocabulary
IsValidCrop(cell) ==
    cell.t = "str" /\ Strip(Lower(cell.s)) \in valid_crop_types

HasCorrection(values, cell) ==
    cell.t = "str" /\ \E j \in 1..Len(values) : values[j].key = cell.s

\* C10 as stated, on the pipeline of the test configuration: after the value
\* correction of process every Crop_type value is in the vocabulary, compared
\* case-insensitively.
C10_EveryCropTypeIsValid ==
    (/\ ret.op = "apply_corrections" /\ ret.caller = "process" /\ ret.raised = ""
     /\ columns_to_rename = columns_to_rename_config
     /\ values_to_rename = values_to_rename_config) =>
        \A i \in 1..Len(df.rows) : IsValidCrop(Column(df, "Crop_type")[i])

\* C10 amended: after apply_corrections a Crop_type value that has an entry in
\* the corrections mapping is that entry's correction and a value that has
\* none is unchanged; so a value is in the vocabulary (compared
\* case-insensitively) when its correction is, or when it has none and was in
\* the vocabulary already.
C10_CorrectedCropTypesAreValid ==
    (ret.op = "apply_corrections" /\ ret.raised = "") =>
        \A i \in 1..Len(df.rows) :
            LET old == Column(before, "Crop_type")[i]
                new == Column(df, "Crop_type")[i]
            IN  IF HasCorrection(values_to_rename, old)
                THEN \E j \in 1..Len(values_to_rename) :
                        /\ values_to_rename[j].key = old.s
                        /\ new = Str(values_to_rename[j].value)
                        /\ Lower(values_to_rename[j].value) \in valid_crop_types
                              => IsValidCrop(new)
                ELSE /\ new = old
                     /\ IsValidCrop(old) => IsValidCrop(new)

\* apply_corrections corrected one crop name into the vocabulary and let an
\* unknown one through
C10_Witness ==
    /\ ret.op = "apply_corrections" /\ ret.raised = ""
    /\ \E i \in 1..Len(df.rows) :
          /\ Column(df, "Crop_type")[i] # Column(before, "Crop_type")[i]
          /\ IsValidCrop(Column(df, "Crop_type")[i])
    /\ \E i \in 1..Len(df.rows) :
          /\ Column(df, "Crop_type")[i].t = "str"
          /\ ~IsValidCrop(Column(df, "Crop_type")[i])

-----------------------------------------------------------------------------
(* Properties of the fetch functions, under SpecIngest.                    *)

IsFetch == ret.op \in {"query_data", "read_from_web_CSV"}

\* C4: query_data and read_from_web_CSV raise an error and return no table
\* when the fetched table has zero rows; what they return is the fetched
\* table, and it has at least one row.
C4_EmptyFetchRaises ==
    IsFetch =>
        /\ (ret.arg.connect = "" /\ ret.arg.error = ""
                /\ Len(ret.arg.table.rows) = 0) =>
              (ret.raised # "" /\ ret.val.none)
        /\ ret.raised = "" =>
              (ret.val = ret.arg.table /\ Len(ret.val.rows) >= 1)

\* a fetch that yielded the header of a table and no row raised ValueError
C4_Witness ==
    /\ IsFetch
    /\ ret.arg.connect = "" /\ ret.arg.error = ""
    /\ ret.arg.table.columns # <<>> /\ ret.arg.table.rows = <<>>
    /\ ret.raised = "ValueError"

-----------------------------------------------------------------------------
(* Properties of the weather pipeline, under SpecWeather.                  *)

\* C6: after process_messages the weather table has the rows it had, in their
\* order, and the two columns Measurement and Value after its own: each row
\* holds what extract_measurement gives for the row's own message, (None,
\* None) when no pattern matches it.
C6_MessagesProcessedRowByRow ==
    (ret.op = "process_messages" /\ ret.raised = "" /\ ~before.none) =>
        /\ Len(weather_df.rows) = Len(before.rows)
        /\ weather_df.columns =
              IF HasColumn(before, "Measurement") THEN before.columns
              ELSE before.columns \o <<"Measurement", "Value">>
        /\ \A i \in 1..Len(before.rows) :
              LET message == before.rows[i][ColumnIndex(before, "Message")]
                  parsed == extract_measurement(message, patterns)
              IN  /\ Column(weather_df, "Weather_station_ID")[i]
                        = Column(before, "Weather_station_ID")[i]
                  /\ Column(weather_df, "Message")[i] = message
                  /\ Column(weather_df, "Measurement")[i] = parsed.Measurement
                  /\ Column(weather_df, "Value")[i] = parsed.Value
                  /\ Matching(message, patterns) = {} =>
                        /\ Column(weather_df, "Measurement")[i] = None
                        /\ Column(weather_df, "Value")[i] = None

\* process_messages added the two columns to a table with a message that
\* matched a pattern and, after it, one that matched none
C6_Witness ==
    /\ ret.op = "process_messages" /\ ret.raised = ""
    /\ ~before.none /\ ~HasColumn(before, "Measurement")
    /\ \E i, j \in 1..Len(weather_df.rows) :
          /\ i < j
          /\ Column(weather_df, "Measurement")[i] = Name("Rainfall")
          /\ Column(weather_df, "Value")[i].t = "float"
          /\ Column(weather_df, "Measurement")[j] = None
          /\ Column(weather_df, "Value")[j] = None

\* the stations of the weather table, and those with a parsed measurement
Stations(table) == Range(Column(table, "Weather_station_ID"))

ParsedRows(table) ==
    SelectSeq(table.rows,
              LAMBDA r : r[ColumnIndex(table, "Measurement")] # None)

\* value * count = the sum of the values, over a common denominator
RECURSIVE Denominator(_), Numerator(_, _)
Denominator(cells) ==
    IF cells = <<>> THEN 1 ELSE Head(cells).d * Denominator(Tail(cells))

Numerator(cells, common) ==
    IF cells = <<>> THEN 0
    ELSE Head(cells).n * (common \div Head(cells).d) + Numerator(Tail(cells), common)

IsMeanOf(cell, cells) ==
    /\ cell.t = "float"
    /\ cell.n * Len(cells) * Denominator(cells)
          = Numerator(cells, Denominator(cells)) * cell.d

MeansCalculated ==
    /\ ret.op = "calculate_means" /\ ret.raised = ""
    /\ ~weather_df.none

\* C7 as stated: the summary of calculate_means has one row for every station
\* of the weather table.
C7_OneRowPerStation ==
    MeansCalculated => ret.val.index = Stations(weather_df)

\* C7 amended: the summary of calculate_means has one row for every station
\* that has a parsed measurement and one column for every category that was
\* parsed; the cell (station, category) is the arithmetic mean of the Values
\* of the station's rows of the category, and is missing, not zero, when the
\* station has no such row.  A station none of whose messages was parsed has
\* no row.
C7_MeansPerParsedStation ==
    MeansCalculated =>
        LET parsed == ParsedRows(weather_df)
            station == ColumnIndex(weather_df, "Weather_station_ID")
            measurement == ColumnIndex(weather_df, "Measurement")
            value == ColumnIndex(weather_df, "Value")
        IN  /\ ret.val.index = {r[station] : r \in Range(parsed)}
            /\ ret.val.columns = {r[measurement] : r \in Range(parsed)}
            /\ \A s \in ret.val.index, c \in ret.val.columns :
                  LET rows == SelectSeq(parsed,
                                 LAMBDA r : r[station] = s /\ r[measurement] = c)
                      values == [i \in 1..Len(rows) |-> rows[i][value]]
                  IN  IF rows = <<>> THEN ret.val.cell[<<s, c>>] = None
                      ELSE IsMeanOf(ret.val.cell[<<s, c>>], values)

\* the summary of the Rainfall values 10, 20 and 30 of station S1 has 20 in
\* the cell (S1, Rainfall)
C7_Witness ==
    /\ MeansCalculated
    /\ Len(weather_df.rows) = 3
    /\ \A v \in {10, 20, 30} :
          \E i \in 1..3 :
              /\ weather_df.rows[i][1] = Name("S1")
              /\ Column(weather_df, "Measurement")[i] = Name("Rainfall")
              /\ Column(weather_df, "Value")[i] = Float(v, 0)
    /\ ret.val.cell[<<Name("S1"), Name("Rainfall")>>] = Float(20, 0)

-----------------------------------------------------------------------------
(* Properties of the sign correction, under SpecField.                     *)

\* a number that is zero or more
NonNegative(cell) == cell.t \in {"int", "float"} /\ cell.n >= 0

\* every Elevation of table is zero or more, and the absolute value of the
\* Elevation of the same row of original
ElevationsCorrected(table, original) ==
    /\ HasColumn(table, "Elevation") /\ HasColumn(original, "Elevation")
    /\ Len(table.rows) = Len(original.rows)
    /\ \A i \in 1..Len(table.rows) :
          /\ NonNegative(Column(table, "Elevation")[i])
          /\ Column(table, "Elevation")[i] = AbsCell(Column(original, "Elevation")[i])

\* C11: after apply_corrections every Elevation of the field table is >= 0
\* and is the absolute value of the Elevation the row had; in a run of
\* process that is the Elevation that was ingested for the row, and it stays
\* so through the station join that follows.
C11_ElevationIsAbsoluteValue ==
    /\ (ret.op = "apply_corrections" /\ ret.raised = "") =>
          ElevationsCorrected(df, before)
    /\ (/\ ret.caller = "process"
        /\ \/ ret.op = "apply_corrections" /\ ret.raised = ""
           \/ ret.op = "weather_station_mapping") =>
          ElevationsCorrected(df, database.table)

\* process corrected a negative ingested Elevation and then joined the
\* stations
C11_Witness ==
    /\ ret.caller = "process" /\ ret.op = "weather_station_mapping"
    /\ ret.raised = ""
    /\ \E i \in 1..Len(df.rows) :
          /\ Column(database.table, "Elevation")[i].n < 0
          /\ Column(df, "Elevation")[i].n = 0 - Column(database.table, "Elevation")[i].n

-----------------------------------------------------------------------------
(* Properties of the order of FieldDataProcessor.process, under SpecField. *)

\* the step of process that follows a step
StepAfter(op) ==
    CASE op = "ingest_sql_data" -> "rename_columns"
      [] op = "rename_columns" -> "apply_corrections"
      [] op = "apply_corrections" -> "weather_station_mapping"
      [] op = "weather_station_mapping" -> "idle"

\* process calls its steps in the order ingest, rename, corrections, join,
\* each after the one before it has returned
MethodsInOrder ==
    ret.caller = "process" =>
        /\ ret.op \in {"ingest_sql_data", "rename_columns", "apply_corrections",
                       "weather_station_mapping"}
        /\ ret.op # "ingest_sql_data" =>
              /\ prev.raised = ""
              /\ StepAfter(prev.op) = ret.op
        /\ pc = IF ret.raised = "" THEN StepAfter(ret.op) ELSE "idle"

\* the Crop_type column of table is the corrected Crop_type column of original
CropTypesCorrected(table, original) ==
    /\ HasColumn(table, "Crop_type") /\ HasColumn(original, "Crop_type")
    /\ Column(table, "Crop_type") =
          [i \in 1..Len(original.rows) |->
              Get(values_to_rename, Column(original, "Crop_type")[i])]

-----------------------------------------------------------------------------
(* Properties of a failing run of process, under SpecField.                *)

\* C13: when a step of process raises, no later step runs and the table is
\* left as it was before the failing step.
C13_FailureLeavesNoPartialState ==
    (ret.caller = "process" /\ ret.raised # "") =>
        /\ pc = "idle"
        /\ df = before

====
